---------------------------- MODULE Spec2Model ----------------------------
(***************************************************************************)
(* State-machine model of kernel_modules/smc_fuzzer.c: the /proc write     *)
(* handler (fuzz, test, enable, disable, reset), the /proc read handler,   *)
(* the fuzzing campaign loop, the SMC result classifier and module load.   *)
(*                                                                         *)
(* The module has no lock.  Every handler runs on the thread of the        *)
(* process that wrote or read /proc/smc_fuzzer, so several handlers can    *)
(* run at once.  A step of the model is one access to the shared globals   *)
(* `stats` and `fuzzing_enabled` together with the thread-local            *)
(* computation that precedes it; `x++` on a shared field is a load step    *)
(* followed by a store step.                                               *)
(*                                                                         *)
(* Machine words wider than TLC's integers are kept as tuples of 16-bit    *)
(* limbs, most significant first: a u32 is <<hi, lo>>, a u64 is            *)
(* <<l3, l2, l1, l0>>.  The u64 counters of `stats` stay far below 2^31    *)
(* within the bounds and are kept as naturals.                             *)
(***************************************************************************)
EXTENDS Integers, Sequences, FiniteSets, TLC

(***************************************************************************)
(* Bounds of the model.                                                    *)
(***************************************************************************)
MaxOps == 2          \* handler invocations (writes and reads) a run starts
MaxPreempt == 1      \* times a thread in the middle of a handler is preempted
MaxIter == 2         \* largest N of a `fuzz N` command in Spec
MaxYieldN == 250     \* largest N of the campaign in SpecYield

(***************************************************************************)
(* Program constants.                                                      *)
(***************************************************************************)
BufSize == 128       \* char buf[128] in proc_write
YieldPeriod == 100   \* (i % 100) == 0 in run_fuzzing_campaign
EINVAL == 22         \* -EINVAL returned by proc_write
EFAULT == 14         \* -EFAULT returned on a failed user copy

(***************************************************************************)
(* Machine words.                                                          *)
(***************************************************************************)
U64Zero == <<0, 0, 0, 0>>
U64One == <<0, 0, 0, 1>>
U64MinusOne == <<65535, 65535, 65535, 65535>>        \* 0xffffffffffffffff
U64SignBit == <<32768, 0, 0, 0>>                     \* 0x8000000000000000
U64MaxPos == <<32767, 65535, 65535, 65535>>          \* 0x7fffffffffffffff
U32Zero == <<0, 0>>

\* res->a0 == 0
IsZeroU64(w) == \A k \in 1..4 : w[k] = 0

\* (s64)res->a0 < 0: bit 63 of the word is set
IsNegS64(w) == w[1] >= 32768

\* x % m for a u32 x and 0 < m < 2^15
ModU32(x, m) == (((x[1] % m) * (65536 % m)) + (x[2] % m)) % m

\* bitwise AND / OR of two values below 2^16
RECURSIVE BitAnd16(_, _, _)
BitAnd16(a, b, n) ==
    IF n = 0 THEN 0
    ELSE (IF a % 2 = 1 /\ b % 2 = 1 THEN 1 ELSE 0)
         + 2 * BitAnd16(a \div 2, b \div 2, n - 1)

RECURSIVE BitOr16(_, _, _)
BitOr16(a, b, n) ==
    IF n = 0 THEN 0
    ELSE (IF a % 2 = 1 \/ b % 2 = 1 THEN 1 ELSE 0)
         + 2 * BitOr16(a \div 2, b \div 2, n - 1)

AndU32(x, y) == <<BitAnd16(x[1], y[1], 16), BitAnd16(x[2], y[2], 16)>>
OrU32(x, y) == <<BitOr16(x[1], y[1], 16), BitOr16(x[2], y[2], 16)>>

(***************************************************************************)
(* The seed corpus and the identifier generator.                           *)
(***************************************************************************)
OPTEE_PREFIX == <<45568, 0>>          \* 0xb2000000

\* (a mask one hex digit too wide: 0x0fffffff)
ID_MASK_Wide == <<4095, 65535>>

ID_MASK == <<255, 65535>>             \* 0x00ffffff

\* (a corpus that lacks its last entry)
known_smc_ids_Short ==
    << <<45568, 3>>, <<45568, 4>>, <<45568, 7>>, <<45568, 9>>, <<45568, 10>> >>

known_smc_ids ==
    << <<45568, 3>>, <<45568, 4>>, <<45568, 7>>,
       <<45568, 9>>, <<45568, 10>>, <<45568, 11>> >>

\* r1, r2, r3: the values the successive get_random_u32() calls return
generate_random_smc_id(use_known, r1, r2, r3) ==
    IF use_known /\ ModU32(r1, 2) # 0
    THEN known_smc_ids[ModU32(r2, Len(known_smc_ids)) + 1]
    ELSE OrU32(OPTEE_PREFIX, AndU32(r3, ID_MASK))

\* rp, r32, r64: the value get_random_u32() returns for the pattern, and the
\* values the get_random_u32() / get_random_u64() call of the case returns
generate_random_param(rp, r32, r64) ==
    LET pattern == ModU32(rp, 10) IN
    IF pattern = 0 THEN U64Zero
    ELSE IF pattern = 1 THEN U64MinusOne
    ELSE IF pattern = 2 THEN U64SignBit
    ELSE IF pattern = 3 THEN U64MaxPos
    ELSE IF pattern = 4 THEN <<0, 0, r32[1], r32[2]>>
    ELSE IF pattern = 5 THEN r64
    ELSE IF pattern = 6 THEN <<0, 0, 0, 4096>>
    ELSE IF pattern = 7 THEN <<0, 0, 0, 4096 + BitAnd16(r32[2], 4095, 16)>>
    ELSE IF pattern = 8 THEN U64MinusOne
    ELSE <<0, 0, r64[3], r64[4]>>

\* the arguments a1..a6 of one call
NumParams == 6
ZeroArgs == [k \in 1..NumParams |-> U64Zero]

\* params[i] = generate_random_param() for i = 0..5; pr[k] holds the draws
\* of the k-th call
RandomParams(pr) ==
    [k \in 1..NumParams |-> generate_random_param(pr[k][1], pr[k][2], pr[k][3])]

(***************************************************************************)
(* struct fuzz_stats.                                                      *)
(***************************************************************************)
\* the members, in declaration order
FieldOrder ==
    <<"total_iterations", "crashes", "hangs", "interesting_cases",
      "valid_responses", "error_responses", "last_smc_id", "last_result">>
Fields == {FieldOrder[k] : k \in 1..Len(FieldOrder)}
Counters == Fields \ {"last_smc_id", "last_result"}

\* static struct fuzz_stats stats = {0}
ZeroStats ==
    [total_iterations |-> 0, crashes |-> 0, hangs |-> 0,
     interesting_cases |-> 0, valid_responses |-> 0, error_responses |-> 0,
     last_smc_id |-> U32Zero, last_result |-> U64Zero]

\* the zero of one field, as memset writes it
ZeroOf(f) == ZeroStats[f]

Reverse(q) == [k \in 1..Len(q) |-> q[Len(q) + 1 - k]]

\* (a reset that clears the counters and leaves the last call in place)
ResetCountersOnly == SubSeq(FieldOrder, 1, 6)

\* the members memset(&stats, 0, sizeof(stats)) covers
ResetFields == FieldOrder

\* memset is not atomic: it stores member by member, from the lowest address
\* up or from the highest down
MemsetOrders == {ResetFields, Reverse(ResetFields)}

\* the arguments of proc_read's snprintf, as written; the compiler loads
\* them first to last or last to first
ArgOrder == <<"fuzzing_enabled">> \o FieldOrder
ArgOrders == {ArgOrder, Reverse(ArgOrder)}

\* (an error result counted as a crash)
ClassifyErrorAsCrash(a0) ==
    IF IsZeroU64(a0) THEN "valid_responses"
    ELSE IF IsNegS64(a0) THEN "crashes"
    ELSE "interesting_cases"

\* (the result compared as an unsigned word: no value is negative)
ClassifyUnsigned(a0) ==
    IF IsZeroU64(a0) THEN "valid_responses" ELSE "interesting_cases"

\* the counter execute_smc increments for primary result word a0
Classify(a0) ==
    IF IsZeroU64(a0) THEN "valid_responses"
    ELSE IF IsNegS64(a0) THEN "error_responses"
    ELSE "interesting_cases"

OutcomeSum(s) == s.valid_responses + s.error_responses + s.interesting_cases

(***************************************************************************)
(* Operator input: the bytes written to /proc/smc_fuzzer, one character    *)
(* per element, and the parser of proc_write.                              *)
(***************************************************************************)
Digits == <<"0", "1", "2", "3", "4", "5", "6", "7", "8", "9">>
IsDigit(c) == \E k \in 1..10 : Digits[k] = c
DigitVal(c) == (CHOOSE k \in 1..10 : Digits[k] = c) - 1
IsSpace(c) == c \in {" ", "\n", "\t"}

\* strncmp(buf, lit, strlen(lit)) == 0
HasPrefix(buf, lit) ==
    Len(buf) >= Len(lit) /\ SubSeq(buf, 1, Len(lit)) = lit

\* first position >= p of buf that holds no white space (Len(buf)+1: none)
RECURSIVE SkipSpace(_, _)
SkipSpace(buf, p) ==
    IF p <= Len(buf) /\ IsSpace(buf[p]) THEN SkipSpace(buf, p + 1) ELSE p

\* value of the run of decimal digits of buf that starts at p, given the
\* value acc of the digits before p
RECURSIVE ParseDec(_, _, _)
ParseDec(buf, p, acc) ==
    IF p <= Len(buf) /\ IsDigit(buf[p])
    THEN ParseDec(buf, p + 1, 10 * acc + DigitVal(buf[p]))
    ELSE acc

\* sscanf(buf, "fuzz %u", &iterations): the literal "fuzz", any white space,
\* then an unsigned decimal; n is the number of conversions made
sscanf_fuzz(buf) ==
    IF ~HasPrefix(buf, <<"f", "u", "z", "z">>) THEN [n |-> 0, val |-> 0]
    ELSE LET p == SkipSpace(buf, 5)
         IN IF p <= Len(buf) /\ IsDigit(buf[p])
            THEN [n |-> 1, val |-> ParseDec(buf, p, 0)]
            ELSE [n |-> 0, val |-> 0]

\* the branch of proc_write's if/else-if chain that buf takes
ParseCommand(buf) ==
    IF sscanf_fuzz(buf).n = 1 THEN "fuzz"
    ELSE IF HasPrefix(buf, <<"t", "e", "s", "t">>) THEN "test"
    ELSE IF HasPrefix(buf, <<"e", "n", "a", "b", "l", "e">>) THEN "enable"
    ELSE IF HasPrefix(buf, <<"d", "i", "s", "a", "b", "l", "e">>) THEN "disable"
    ELSE IF HasPrefix(buf, <<"r", "e", "s", "e", "t">>) THEN "reset"
    ELSE "unknown"

\* the decimal digits of n, as echo would write them
RECURSIVE DecStr(_)
DecStr(n) ==
    IF n < 10 THEN <<Digits[n + 1]>>
    ELSE DecStr(n \div 10) \o <<Digits[(n % 10) + 1]>>

FuzzCmd(n) == <<"f", "u", "z", "z", " ">> \o DecStr(n)
TestCmd == <<"t", "e", "s", "t">>
EnableCmd == <<"e", "n", "a", "b", "l", "e">>
DisableCmd == <<"d", "i", "s", "a", "b", "l", "e">>
ResetCmd == <<"r", "e", "s", "e", "t">>

\* the five well-formed commands of the usage text
WellFormed(maxN) ==
    {FuzzCmd(n) : n \in 0..maxN} \cup {TestCmd, EnableCmd, DisableCmd, ResetCmd}

\* a well-formed command followed by a byte of junk, `fuzz` without a
\* number, an unknown verb, the empty write, and writes that do not fit buf
Junk(cmd) == cmd \o <<"x">>
OverLong(cmd) == cmd \o [k \in 1..(BufSize - Len(cmd)) |-> " "]
Malformed ==
    {Junk(TestCmd), Junk(EnableCmd), Junk(DisableCmd), Junk(ResetCmd),
     Junk(FuzzCmd(1)), <<"f", "u", "z", "z">>, <<"f", "u", "z", "z", " ", "x">>,
     <<"b", "o", "g", "u", "s">>, <<>>,
     OverLong(ResetCmd), OverLong(FuzzCmd(1)), OverLong(<<"b">>)}

(***************************************************************************)
(* The environment: what get_random_u32() and the secure monitor return.   *)
(***************************************************************************)
Results == {U64Zero, U64One, U64MinusOne, U64SignBit, U64MaxPos}
\* the values three successive get_random_u32() calls return: one triple
\* that picks a corpus entry and one that synthesizes an identifier
Draws == {<< <<65535, 65535>>, <<65535, 65535>>, <<0, 0>> >>,
          << <<0, 0>>, <<0, 0>>, <<65535, 65535>> >>}

\* the draws of the six generate_random_param() calls of one iteration: one
\* list that takes the patterns 0..5 and one that takes the patterns 4..9
ParamDraw(pattern) == << <<0, pattern>>, <<4660, 22136>>, <<65535, 0, 43981, 8191>> >>
ParamDraws == {[k \in 1..NumParams |-> ParamDraw(k - 1)],
               [k \in 1..NumParams |-> ParamDraw(k + 3)]}

\* SpecId: the values a get_random_u32() call returns: 0, small values of
\* either parity, 0x00ffffff, 0x01000000, 0x4dffffff, 0x80000003,
\* 0xb2000000, 0xff000000, 0xffffffff
IdWords == {<<0, 0>>, <<0, 1>>, <<0, 4>>, <<0, 5>>, <<255, 65535>>, <<256, 0>>,
            <<19967, 65535>>, <<32768, 3>>, <<45568, 0>>, <<65280, 0>>,
            <<65535, 65535>>}

\* SpecYield: the campaign lengths, the monitor's answers and the draws
YieldRuns == {0, 1, YieldPeriod, YieldPeriod + 1, MaxYieldN}
YieldMonitor == {U64Zero, U64MinusOne}
YieldDraws == {<< <<65535, 65535>>, <<65535, 65535>>, <<0, 0>> >>}
YieldParamDraws == {[k \in 1..NumParams |-> ParamDraw(k - 1)]}

(***************************************************************************)
(* Threads.  "insmod" runs smc_fuzzer_init; w1 and w2 are processes that   *)
(* write /proc/smc_fuzzer; one further process reads it.                    *)
(***************************************************************************)
Loader == "insmod"
Writers == {"w1", "w2"}
FirstWriter == "w1"
SecondWriter == "w2"
Threads == Writers \cup {Loader}
Reader == "reader"

VARIABLES
    stats,            \* static struct fuzz_stats stats
    fuzzing_enabled,  \* static bool fuzzing_enabled
    th,               \* th[t]: the locals of the handler thread t runs
    gh,               \* gh[t]: history of t's current handler (not program state)
    rd,               \* the locals of the reader's proc_read
    ppos,             \* the reader's file position: 0, or 1 for len > 0
    ops,              \* handler invocations the run may still start
    fresh,            \* a reset completed undisturbed and no command followed
    cur,              \* the thread that took the latest step
    preempts,         \* switches away from a thread in the middle of a handler
    monitor           \* the result words the secure monitor answers with

vars == <<stats, fuzzing_enabled, th, gh, rd, ppos, ops, fresh, cur, preempts,
          monitor>>

RenderFields == {"fuzzing_enabled"} \cup Fields

IdleTh ==
    [pc |-> "idle", cmd |-> "none", iterations |-> 0, i |-> 0, tmp |-> 0,
     func_id |-> U32Zero, args |-> ZeroArgs, res |-> U64Zero, rv |-> 0,
     todo |-> <<>>]

\* history of a handler: the bytes written, the stats and the flag when it
\* started (base, en0), the stats when its latest execute_smc started (snap,
\* kept while no other thread stores to stats), the monitor calls it made, the
\* iteration counts at which it reached cond_resched, the commands other
\* threads ran while it ran, whether it took the "stopped by user" branch,
\* the iteration count at which a disable found it at the loop head, and
\* the identifier and arguments of each call test_known_smcs made in it
IdleGh ==
    [buf |-> <<>>, base |-> ZeroStats, en0 |-> FALSE, snap |-> ZeroStats,
     calls |-> 0, yields |-> {}, clash |-> {}, stopped |-> FALSE, disAt |-> -1,
     log |-> <<>>]

\* the argument values of snprintf before any is loaded
NothingSeen ==
    [f \in RenderFields |-> IF f = "fuzzing_enabled" THEN FALSE ELSE ZeroStats[f]]

IdleRd ==
    [pc |-> "idle", seen |-> NothingSeen, todo |-> <<>>, rv |-> 0,
     pre |-> ZeroStats, quiet |-> FALSE, clash |-> {}, fresh |-> FALSE]

Active(t) == th[t].pc \notin {"idle", "ret", "loaded"}
InHandler(t) == th[t].pc \notin {"idle", "loaded"}

\* (the loop condition off by one)
LoopCondLe(i, iterations) == i <= iterations

\* i < iterations
LoopCond(i, iterations) == i < iterations

\* (the check of the flag left out)
UserStoppedNever(enabled) == FALSE

\* if (!fuzzing_enabled) break;
UserStopped(enabled) == ~enabled

\* the iterations of t's campaign whose call has been classified: i, and one
\* more between the return of fuzz_iteration and the i++ of the loop
IterationsDone(t) == IF th[t].pc = "after_smc" THEN th[t].i + 1 ELSE th[t].i

\* t's campaign is between the classification of a call and the next check
\* of the flag, with budget left
BetweenIterations(t) ==
    /\ th[t].cmd = "fuzz"
    /\ th[t].pc \in {"after_smc", "loop"}
    /\ IterationsDone(t) < th[t].iterations
Running == {t \in Threads : Active(t)}

\* commands that store to stats, and those that store to total_iterations
StatsWriters == {"fuzz", "test", "load", "reset"}
TotalWriters == {"fuzz", "reset"}
Undisturbed(t) == gh[t].clash \cap StatsWriters = {}
Unraced(t) == gh[t].clash \cap TotalWriters = {}

\* what the history keeps of a reference value s of stats once command c has
\* run beside the handler: nothing that c may have stored to
Keep(s, c) ==
    IF c \in TotalWriters THEN ZeroStats
    ELSE IF c \in StatsWriters
    THEN [ZeroStats EXCEPT !.total_iterations = s.total_iterations]
    ELSE s

(***************************************************************************)
(* The schedule.  Threads run in parallel; the model interleaves their     *)
(* steps and bounds how often a thread that is in the middle of a handler  *)
(* loses the processor to another one.  cond_resched() gives the processor *)
(* up and is no such loss.                                                 *)
(***************************************************************************)
Busy(p) ==
    IF p = "none" THEN FALSE
    ELSE IF p = Reader THEN rd.pc # "idle"
    ELSE th[p].pc \notin {"idle", "loaded"}

\* after p's step: p if it is still in its handler, else nobody
Holder(p, in_handler) == IF in_handler THEN p ELSE "none"

\* the writers are interchangeable: of the writers that are free, the first
\* one takes the next command
FirstFree(t) == t = FirstWriter \/ th[FirstWriter].pc # "idle"

Sched(p) ==
    /\ UNCHANGED monitor
    /\ IF cur # p /\ Busy(cur) THEN preempts < MaxPreempt ELSE TRUE
    /\ preempts' = IF cur # p /\ Busy(cur) THEN preempts + 1 ELSE preempts

(***************************************************************************)
(* Module load.  smc_fuzzer_init publishes /proc/smc_fuzzer and then runs  *)
(* test_known_smcs() on the loader's thread.  Loading is the state right   *)
(* after proc_create(): statics at their initialisers, the loader about to *)
(* make the first test call.  Loaded(a0) is the state smc_fuzzer_init      *)
(* returns in when no handler ran meanwhile and every call answered a0.    *)
(***************************************************************************)
Quiet ==
    /\ gh = [t \in Threads |-> IdleGh]
    /\ rd = IdleRd
    /\ ppos = 0
    /\ fresh = FALSE
    /\ preempts = 0

Loading ==
    /\ stats = ZeroStats
    /\ fuzzing_enabled = TRUE
    /\ th = [t \in Threads |->
               IF t = Loader THEN [IdleTh EXCEPT !.pc = "t_call", !.cmd = "load"]
               ELSE IdleTh]
    /\ cur = Loader
    /\ Quiet

\* the net effect on s of one execute_smc(id, ...) answered a0 that no other
\* thread interleaves with
AfterCall(s, id, a0) ==
    [s EXCEPT !.last_smc_id = id, !.last_result = a0, ![Classify(a0)] = @ + 1]

\* the stats after test_known_smcs has called known_smc_ids[1..k]
RECURSIVE AfterTest(_, _, _)
AfterTest(s, k, a0) ==
    IF k = 0 THEN s
    ELSE AfterCall(AfterTest(s, k - 1, a0), known_smc_ids[k], a0)

Loaded(a0) ==
    /\ stats = AfterTest(ZeroStats, Len(known_smc_ids), a0)
    /\ fuzzing_enabled = TRUE
    /\ th = [t \in Threads |->
               IF t = Loader THEN [IdleTh EXCEPT !.pc = "loaded", !.cmd = "load"]
               ELSE IdleTh]
    /\ cur = "none"
    /\ Quiet

(***************************************************************************)
(* proc_write: the bounds check, the user copy, the parse and the branch   *)
(* taken.  enable, disable and the rejections finish in this step; fuzz,   *)
(* test and reset continue in the steps below.                             *)
(***************************************************************************)
Dispatch(buf, copy_ok) ==
    IF Len(buf) >= BufSize THEN "toolong"
    ELSE IF ~copy_ok THEN "fault"
    ELSE ParseCommand(buf)

Accepted == {"fuzz", "test", "enable", "disable", "reset"}

ReturnValue(c, count) ==
    IF c \in {"toolong", "unknown"} THEN -EINVAL
    ELSE IF c = "fault" THEN -EFAULT
    ELSE count

FirstPc(c) ==
    IF c = "fuzz" THEN "loop"
    ELSE IF c = "test" THEN "t_call"
    ELSE IF c = "reset" THEN "memset"
    ELSE "ret"

\* (a reset that also switches fuzzing back on)
FlagAfterResetEnables(c, enabled) ==
    IF c \in {"enable", "reset"} THEN TRUE
    ELSE IF c = "disable" THEN FALSE
    ELSE enabled

\* (enable and disable that each flip the flag)
FlagAfterFlip(c, enabled) ==
    IF c \in {"enable", "disable"} THEN ~enabled ELSE enabled

\* fuzzing_enabled after the branch of command c: `enable` stores true,
\* `disable` stores false, no other branch stores to it
FlagAfter(c, enabled) ==
    IF c = "enable" THEN TRUE
    ELSE IF c = "disable" THEN FALSE
    ELSE enabled

proc_write(t, buf, copy_ok, order) ==
    LET c == Dispatch(buf, copy_ok) IN
    /\ Sched(t)
    /\ cur' = t
    /\ t \in Writers
    /\ th[t].pc = "idle"
    /\ FirstFree(t)
    /\ ops > 0
    /\ ops' = ops - 1
    /\ th' = [th EXCEPT ![t] =
                [IdleTh EXCEPT !.pc = FirstPc(c), !.cmd = c,
                               !.iterations = IF c = "fuzz" THEN sscanf_fuzz(buf).val ELSE 0,
                               !.rv = ReturnValue(c, Len(buf)),
                               !.todo = IF c = "reset" THEN order ELSE <<>>]]
    /\ fuzzing_enabled' = FlagAfter(c, fuzzing_enabled)
    /\ gh' = [u \in Threads |->
                IF u = t
                THEN [IdleGh EXCEPT !.buf = buf, !.base = stats, !.en0 = fuzzing_enabled,
                                    !.clash = {th[v].cmd : v \in Running \ {t}}]
                ELSE IF InHandler(u) /\ c \in Accepted
                THEN [gh[u] EXCEPT !.clash = @ \cup {c},
                                   !.base = Keep(@, c),
                                   !.snap = IF c \in StatsWriters THEN ZeroStats ELSE @,
                                   !.disAt = IF c = "disable"
                                             THEN (IF BetweenIterations(u)
                                                   THEN IterationsDone(u) ELSE -1)
                                             ELSE IF c = "enable" THEN -1
                                             ELSE @]
                ELSE gh[u]]
    /\ fresh' = (fresh /\ c \notin Accepted)
    /\ rd' = IF c \in Accepted
             THEN [rd EXCEPT !.fresh = FALSE,
                             !.clash = IF rd.pc = "snprintf" THEN @ \cup {c} ELSE @]
             ELSE rd
    /\ UNCHANGED <<stats, ppos>>

\* return count / -EINVAL / -EFAULT to the writer
Return(t) ==
    /\ Sched(t)
    /\ cur' = "none"
    /\ th[t].pc = "ret"
    /\ th' = [th EXCEPT ![t] = IdleTh]
    /\ gh' = [gh EXCEPT ![t] = IdleGh]
    /\ UNCHANGED <<stats, fuzzing_enabled, rd, ppos, ops, fresh>>

(***************************************************************************)
(* run_fuzzing_campaign and fuzz_iteration.                                *)
(***************************************************************************)
\* for (...; i < iterations; ...) { if (!fuzzing_enabled) break; ...
CampaignCheck(t) ==
    /\ Sched(t)
    /\ cur' = t
    /\ th[t].pc = "loop"
    /\ th' = [th EXCEPT ![t].pc =
                IF LoopCond(th[t].i, th[t].iterations) /\ ~UserStopped(fuzzing_enabled)
                THEN "inc_load" ELSE "ret"]
    /\ gh' = [gh EXCEPT ![t].stopped =
                LoopCond(th[t].i, th[t].iterations) /\ UserStopped(fuzzing_enabled)]
    /\ UNCHANGED <<stats, fuzzing_enabled, rd, ppos, ops, fresh>>

\* stats.total_iterations++ : the load
IterLoad(t) ==
    /\ Sched(t)
    /\ cur' = t
    /\ th[t].pc = "inc_load"
    /\ th' = [th EXCEPT ![t].tmp = stats.total_iterations, ![t].pc = "inc_store"]
    /\ UNCHANGED <<stats, fuzzing_enabled, gh, rd, ppos, ops, fresh>>

\* stats.total_iterations++ : the store
IterStore(t) ==
    /\ Sched(t)
    /\ cur' = t
    /\ th[t].pc = "inc_store"
    /\ stats' = [stats EXCEPT !.total_iterations = th[t].tmp + 1]
    /\ th' = [th EXCEPT ![t].pc = "f_call"]
    /\ UNCHANGED <<fuzzing_enabled, gh, rd, ppos, ops, fresh>>

(***************************************************************************)
(* execute_smc: the call, then the stores to stats one at a time.          *)
(***************************************************************************)
\* arm_smccc_smc(func_id, ...) returning a0 in res, then stats.last_smc_id
SmcCall(t, id, args, a0) ==
    /\ Sched(t)
    /\ cur' = t
    /\ th' = [th EXCEPT ![t].func_id = id, ![t].args = args, ![t].res = a0,
                        ![t].pc = "st_res"]
    /\ stats' = [stats EXCEPT !.last_smc_id = id]
    /\ gh' = [gh EXCEPT ![t].snap = IF Undisturbed(t) THEN stats ELSE ZeroStats,
                        ![t].calls = @ + 1,
                        ![t].log = IF th[t].cmd = "fuzz" THEN @
                                   ELSE Append(@, <<id, args>>)]
    /\ UNCHANGED <<fuzzing_enabled, rd, ppos, ops, fresh>>

\* fuzz_iteration: generate the identifier (and the parameters), call
FuzzCall(t, r1, r2, r3, pr, a0) ==
    /\ th[t].pc = "f_call"
    /\ SmcCall(t, generate_random_smc_id(TRUE, r1, r2, r3), RandomParams(pr), a0)

\* test_known_smcs: call known_smc_ids[i] with zero arguments
TestCall(t, a0) ==
    /\ th[t].pc = "t_call"
    /\ SmcCall(t, known_smc_ids[th[t].i + 1], ZeroArgs, a0)

\* (the result word not recorded)
StoreResultNever(t) ==
    /\ Sched(t)
    /\ cur' = t
    /\ th[t].pc = "st_res"
    /\ th' = [th EXCEPT ![t].pc = "cl_load"]
    /\ UNCHANGED <<stats, fuzzing_enabled, gh, rd, ppos, ops, fresh>>

\* stats.last_result = res->a0
StoreResult(t) ==
    /\ Sched(t)
    /\ cur' = t
    /\ th[t].pc = "st_res"
    /\ stats' = [stats EXCEPT !.last_result = th[t].res]
    /\ th' = [th EXCEPT ![t].pc = "cl_load"]
    /\ UNCHANGED <<fuzzing_enabled, gh, rd, ppos, ops, fresh>>

\* stats.<counter>++ of the branch the result takes: the load
ClassLoad(t) ==
    /\ Sched(t)
    /\ cur' = t
    /\ th[t].pc = "cl_load"
    /\ th' = [th EXCEPT ![t].tmp = stats[Classify(th[t].res)], ![t].pc = "cl_store"]
    /\ UNCHANGED <<stats, fuzzing_enabled, gh, rd, ppos, ops, fresh>>

\* stats.<counter>++ : the store; execute_smc returns
ClassStore(t) ==
    /\ Sched(t)
    /\ cur' = t
    /\ th[t].pc = "cl_store"
    /\ stats' = [stats EXCEPT ![Classify(th[t].res)] = th[t].tmp + 1]
    /\ th' = [th EXCEPT ![t].pc = "after_smc"]
    /\ UNCHANGED <<fuzzing_enabled, gh, rd, ppos, ops, fresh>>

\* (the yield placed after every 100th completed iteration)
YieldsAfterHundred(i) == (i + 1) % YieldPeriod = 0

\* if ((i % 100) == 0) cond_resched();  then i++
YieldsNow(i) == i % YieldPeriod = 0

\* (a campaign that gives up at the first error result)
AfterIterationStopOnError(res) == IF IsNegS64(res) THEN "ret" ELSE "loop"

\* fuzz_iteration returns 0 whatever the result and run_fuzzing_campaign
\* ignores what it returns: the loop goes on to i++ and the next check
AfterIteration(res) == "loop"

CondResched(t) ==
    /\ Sched(t)
    /\ cur' = Holder(t, ~YieldsNow(th[t].i))
    /\ th[t].pc = "after_smc"
    /\ th[t].cmd = "fuzz"
    /\ gh' = [gh EXCEPT ![t].yields =
                IF YieldsNow(th[t].i) THEN @ \cup {th[t].i + 1} ELSE @]
    /\ th' = [th EXCEPT ![t].i = @ + 1, ![t].pc = AfterIteration(th[t].res)]
    /\ UNCHANGED <<stats, fuzzing_enabled, rd, ppos, ops, fresh>>

\* (a test that goes on only while fuzzing is enabled)
TestLoopCondGated(i, enabled) == i < Len(known_smc_ids) /\ enabled

\* i < ARRAY_SIZE(known_smc_ids): the loop of test_known_smcs has no other
\* exit and does not read fuzzing_enabled
TestLoopCond(i, enabled) == i < Len(known_smc_ids)

\* test_known_smcs: pr_info, i++, i < ARRAY_SIZE(known_smc_ids)
TestNext(t) ==
    /\ Sched(t)
    /\ cur' = Holder(t, ~(t = Loader /\ th[t].i + 1 = Len(known_smc_ids)))
    /\ th[t].pc = "after_smc"
    /\ th[t].cmd \in {"test", "load"}
    /\ th' = [th EXCEPT ![t].i = @ + 1,
                        ![t].pc = IF TestLoopCond(th[t].i + 1, fuzzing_enabled)
                                  THEN "t_call"
                                  ELSE IF t = Loader THEN "loaded" ELSE "ret"]
    /\ UNCHANGED <<stats, fuzzing_enabled, gh, rd, ppos, ops, fresh>>

(***************************************************************************)
(* reset: memset(&stats, 0, sizeof(stats)) zeroes the next member of the   *)
(* order it was started with.                                              *)
(***************************************************************************)
Memset(t) ==
    /\ Sched(t)
    /\ cur' = t
    /\ th[t].pc = "memset"
    /\ stats' = [stats EXCEPT ![Head(th[t].todo)] = ZeroOf(Head(th[t].todo))]
    /\ th' = [th EXCEPT ![t].todo = Tail(@),
                        ![t].pc = IF Len(th[t].todo) = 1 THEN "ret" ELSE "memset"]
    /\ fresh' = (Len(th[t].todo) = 1 /\ gh[t].clash = {})
    /\ UNCHANGED <<fuzzing_enabled, gh, rd, ppos, ops>>

(***************************************************************************)
(* proc_read: snprintf's arguments are loaded one by one; then the text is *)
(* copied out.                                                             *)
(***************************************************************************)
Load(f) == IF f = "fuzzing_enabled" THEN fuzzing_enabled ELSE stats[f]

\* if (*ppos > 0) return 0;
ReadStart(order) ==
    /\ Sched(Reader)
    /\ cur' = Reader
    /\ rd.pc = "idle"
    /\ ops > 0
    /\ ops' = ops - 1
    /\ rd' = IF ppos > 0
             THEN [IdleRd EXCEPT !.pc = "r_ret"]
             ELSE [IdleRd EXCEPT !.pc = "snprintf", !.todo = order, !.pre = stats,
                                 !.quiet = (Running = {}), !.fresh = fresh]
    /\ UNCHANGED <<stats, fuzzing_enabled, th, gh, ppos, fresh>>

ReadField ==
    /\ Sched(Reader)
    /\ cur' = Reader
    /\ rd.pc = "snprintf"
    /\ rd' = [rd EXCEPT !.seen[Head(rd.todo)] = Load(Head(rd.todo)), !.todo = Tail(@),
                        !.pc = IF Len(rd.todo) = 1 THEN "copy" ELSE "snprintf"]
    /\ UNCHANGED <<stats, fuzzing_enabled, th, gh, ppos, ops, fresh>>

\* copy_to_user; *ppos = len; return len  (1 stands for len, which is > 0)
ReadCopy(copy_ok) ==
    /\ Sched(Reader)
    /\ cur' = Reader
    /\ rd.pc = "copy"
    /\ rd' = [rd EXCEPT !.pc = "r_ret", !.rv = IF copy_ok THEN 1 ELSE -EFAULT]
    /\ ppos' = IF copy_ok THEN 1 ELSE ppos
    /\ UNCHANGED <<stats, fuzzing_enabled, th, gh, ops, fresh>>

ReadReturn ==
    /\ Sched(Reader)
    /\ cur' = "none"
    /\ rd.pc = "r_ret"
    /\ rd' = IdleRd
    /\ UNCHANGED <<stats, fuzzing_enabled, th, gh, ppos, ops, fresh>>

\* the reader reopens the file (or seeks to 0) between two reads
Reopen ==
    /\ Sched(Reader)
    /\ cur' = "none"
    /\ rd.pc = "idle"
    /\ ppos > 0
    /\ ppos' = 0
    /\ UNCHANGED <<stats, fuzzing_enabled, th, gh, rd, ops, fresh>>

WriterStep(t, inputs) ==
    \/ \E buf \in inputs, ok \in BOOLEAN, order \in MemsetOrders :
          proc_write(t, buf, ok, order)
    \/ Return(t)
    \/ CampaignCheck(t)
    \/ IterLoad(t)
    \/ IterStore(t)
    \/ \E r \in Draws, pr \in ParamDraws, a0 \in monitor :
          FuzzCall(t, r[1], r[2], r[3], pr, a0)
    \/ \E a0 \in monitor : TestCall(t, a0)
    \/ StoreResult(t)
    \/ ClassLoad(t)
    \/ ClassStore(t)
    \/ CondResched(t)
    \/ TestNext(t)
    \/ Memset(t)

ReaderStep ==
    \/ \E order \in ArgOrders : ReadStart(order)
    \/ ReadField
    \/ \E ok \in BOOLEAN : ReadCopy(ok)
    \/ ReadReturn
    \/ Reopen

\* test_known_smcs on the loader's thread
LoaderStep ==
    \/ \E a0 \in monitor : TestCall(Loader, a0)
    \/ StoreResult(Loader)
    \/ ClassLoad(Loader)
    \/ ClassStore(Loader)
    \/ TestNext(Loader)

\* the campaign loop of one writer
CampaignStep(t) ==
    \/ CampaignCheck(t)
    \/ IterLoad(t)
    \/ IterStore(t)
    \/ \E r \in YieldDraws, pr \in YieldParamDraws, a0 \in monitor :
          FuzzCall(t, r[1], r[2], r[3], pr, a0)
    \/ StoreResult(t)
    \/ ClassLoad(t)
    \/ ClassStore(t)
    \/ CondResched(t)
    \/ Return(t)

(***************************************************************************)
(* Spec: smc_fuzzer_init has returned; two processes write                 *)
(* /proc/smc_fuzzer; the secure monitor gives the same answer to every     *)
(* call of a run.                                                          *)
(***************************************************************************)
Inputs == WellFormed(MaxIter) \cup {<<"b", "o", "g", "u", "s">>, OverLong(TestCmd)}

Init ==
    \E a0 \in Results :
        /\ monitor = {a0}
        /\ Loaded(a0)
        /\ ops = MaxOps

Next == \E t \in Writers : WriterStep(t, Inputs)

Spec == Init /\ [][Next]_vars

(***************************************************************************)
(* SpecRead: as Spec, with one process that writes and one that reads.     *)
(***************************************************************************)
NextRead == WriterStep(FirstWriter, Inputs) \/ ReaderStep

SpecRead == Init /\ [][NextRead]_vars

(***************************************************************************)
(* SpecCmd: one process writes commands, well-formed and malformed, one    *)
(* after the other.                                                        *)
(***************************************************************************)
CmdInputs == WellFormed(MaxIter) \cup Malformed

NextCmd == WriterStep(FirstWriter, CmdInputs)

SpecCmd == Init /\ [][NextCmd]_vars

(***************************************************************************)
(* SpecLoad: smc_fuzzer_init alone, from proc_create() to its return; the  *)
(* secure monitor answers each call with any result word.                  *)
(***************************************************************************)
InitLoad ==
    /\ monitor = Results
    /\ Loading
    /\ ops = 0

NextLoad == LoaderStep

SpecLoad == InitLoad /\ [][NextLoad]_vars

(***************************************************************************)
(* SpecYield: one campaign `fuzz N` of one writer, from the return of the  *)
(* parse to the return of proc_write, for N up to MaxYieldN; the secure    *)
(* monitor answers each call with success or with an error.                *)
(***************************************************************************)
\* w1 has written `fuzz n` to the loaded module and proc_write has called
\* run_fuzzing_campaign(n); every call of the load was answered a0
Campaigning(n, a0) ==
    /\ stats = AfterTest(ZeroStats, Len(known_smc_ids), a0)
    /\ fuzzing_enabled = TRUE
    /\ th = [t \in Threads |->
               IF t = Loader THEN [IdleTh EXCEPT !.pc = "loaded", !.cmd = "load"]
               ELSE IF t = FirstWriter
               THEN [IdleTh EXCEPT !.pc = "loop", !.cmd = "fuzz", !.iterations = n,
                                   !.rv = Len(FuzzCmd(n))]
               ELSE IdleTh]
    /\ gh = [t \in Threads |->
               IF t = FirstWriter
               THEN [IdleGh EXCEPT !.buf = FuzzCmd(n), !.base = stats, !.en0 = TRUE]
               ELSE IdleGh]
    /\ rd = IdleRd
    /\ ppos = 0
    /\ fresh = FALSE
    /\ cur = FirstWriter
    /\ preempts = 0

InitYield ==
    \E n \in YieldRuns :
        /\ monitor = YieldMonitor
        /\ Campaigning(n, U64Zero)
        /\ ops = 0

NextYield == CampaignStep(FirstWriter)

SpecYield == InitYield /\ [][NextYield]_vars

(***************************************************************************)
(* SpecToggle: one campaign `fuzz n` of w1, n up to MaxIter, while a       *)
(* second process writes enable and disable commands.                      *)
(***************************************************************************)
Toggles == {EnableCmd, DisableCmd}

ToggleStep(t) ==
    \/ \E buf \in Toggles, ok \in BOOLEAN : proc_write(t, buf, ok, ResetFields)
    \/ Return(t)

InitToggle ==
    \E n \in 0..MaxIter, a0 \in Results :
        /\ monitor = {a0}
        /\ Campaigning(n, a0)
        /\ ops = MaxOps

NextToggle ==
    \/ \E r \in Draws, pr \in ParamDraws, a0 \in monitor :
          FuzzCall(FirstWriter, r[1], r[2], r[3], pr, a0)
    \/ CampaignCheck(FirstWriter)
    \/ IterLoad(FirstWriter)
    \/ IterStore(FirstWriter)
    \/ StoreResult(FirstWriter)
    \/ ClassLoad(FirstWriter)
    \/ ClassStore(FirstWriter)
    \/ CondResched(FirstWriter)
    \/ ToggleStep(FirstWriter)
    \/ ToggleStep(SecondWriter)

SpecToggle == InitToggle /\ [][NextToggle]_vars

(***************************************************************************)
(* SpecId: one campaign `fuzz n` of w1 whose get_random_u32() calls in     *)
(* generate_random_smc_id return any of IdWords.                           *)
(***************************************************************************)
NextId ==
    \/ \E r1, r2, r3 \in IdWords, pr \in YieldParamDraws, a0 \in monitor :
          FuzzCall(FirstWriter, r1, r2, r3, pr, a0)
    \/ CampaignCheck(FirstWriter)
    \/ IterLoad(FirstWriter)
    \/ IterStore(FirstWriter)
    \/ StoreResult(FirstWriter)
    \/ ClassLoad(FirstWriter)
    \/ ClassStore(FirstWriter)
    \/ CondResched(FirstWriter)
    \/ Return(FirstWriter)

SpecId == InitToggle /\ [][NextId]_vars

(***************************************************************************)
(* SpecLive: one campaign `fuzz n` of w1 while a second process writes     *)
(* enable, disable and reset commands.  The scheduler runs every thread    *)
(* that can run, and every call to the secure monitor returns: a thread    *)
(* inside a handler eventually takes its next step.                        *)
(***************************************************************************)
Controls == {EnableCmd, DisableCmd, ResetCmd}

ControlStep(t) ==
    \/ \E buf \in Controls, order \in MemsetOrders : proc_write(t, buf, TRUE, order)
    \/ Memset(t)
    \/ Return(t)

NextLive == CampaignStep(FirstWriter) \/ ControlStep(SecondWriter)

LiveFairness ==
    /\ WF_vars(CampaignStep(FirstWriter))
    /\ WF_vars(Memset(SecondWriter) \/ Return(SecondWriter))

SpecLive == InitToggle /\ [][NextLive]_vars /\ LiveFairness

(***************************************************************************)
(* SpecOff: as Spec, from the state a `disable` written to the loaded      *)
(* module leaves when it has returned.                                     *)
(***************************************************************************)
LoadedAndDisabled(a0) ==
    /\ stats = AfterTest(ZeroStats, Len(known_smc_ids), a0)
    /\ fuzzing_enabled = FALSE
    /\ th = [t \in Threads |->
               IF t = Loader THEN [IdleTh EXCEPT !.pc = "loaded", !.cmd = "load"]
               ELSE IdleTh]
    /\ cur = "none"
    /\ Quiet

InitOff ==
    \E a0 \in Results :
        /\ monitor = {a0}
        /\ LoadedAndDisabled(a0)
        /\ ops = MaxOps

SpecOff == InitOff /\ [][Next]_vars

(***************************************************************************)
(* SpecInit: smc_fuzzer_init from proc_create() to its return, while a     *)
(* process writes commands to the /proc entry that proc_create() has       *)
(* published.                                                              *)
(***************************************************************************)
InitInit ==
    \E a0 \in Results :
        /\ monitor = {a0}
        /\ Loading
        /\ ops = MaxOps

NextInit == LoaderStep \/ WriterStep(FirstWriter, Inputs)

SpecInit == InitInit /\ [][NextInit]_vars

(***************************************************************************)
(* SpecKnown: fuzzing has been disabled; one process writes `test`         *)
(* commands while a second one writes enable and disable commands; the     *)
(* calls of module load were answered 0.                                   *)
(***************************************************************************)
TestStep(t) ==
    \/ \E ok \in BOOLEAN : proc_write(t, TestCmd, ok, ResetFields)
    \/ \E a0 \in monitor : TestCall(t, a0)
    \/ StoreResult(t)
    \/ ClassLoad(t)
    \/ ClassStore(t)
    \/ TestNext(t)
    \/ Return(t)

InitKnown ==
    \E a0 \in Results :
        /\ monitor = {a0}
        /\ LoadedAndDisabled(U64Zero)
        /\ ops = MaxOps + 1

NextKnown == TestStep(FirstWriter) \/ ToggleStep(SecondWriter)

SpecKnown == InitKnown /\ [][NextKnown]_vars

(***************************************************************************)
(* Properties.                                                             *)
(***************************************************************************)
Quiescent == \A t \in Threads : ~InHandler(t)

\* a campaign of t has returned from run_fuzzing_campaign
CampaignOver(t) == th[t].cmd = "fuzz" /\ th[t].pc = "ret"

TotalGrowth(t) == stats.total_iterations - gh[t].base.total_iterations

\* C1: a `fuzz N` campaign that ran with the flag true throughout and with
\* no other command during it has increased total_iterations by exactly N.
C1_RunAddsExactlyN ==
    \A t \in Writers :
        (CampaignOver(t) /\ gh[t].clash = {} /\ fuzzing_enabled)
            => TotalGrowth(t) = th[t].iterations

C1_Witness ==
    \E t \in Writers :
        /\ CampaignOver(t) /\ gh[t].clash = {} /\ fuzzing_enabled
        /\ th[t].iterations = 2
        /\ TotalGrowth(t) = 2

\* C2: in every quiescent state reachable from module load,
\* valid_responses + error_responses + interesting_cases = total_iterations.
C2_OutcomesSumToTotal ==
    Quiescent => OutcomeSum(stats) = stats.total_iterations

\* C3 as stated: a campaign run(N) that is not stopped early has reached
\* cond_resched exactly after its iterations 100, 200, ...: floor(N/100) times.
C3_YieldAfterEachHundred ==
    \A t \in Writers :
        (CampaignOver(t) /\ ~gh[t].stopped)
            => /\ gh[t].yields = {k \in 1..th[t].iterations : k % 100 = 0}
               /\ Cardinality(gh[t].yields) = th[t].iterations \div 100

\* C3 amended: a campaign run(N) that is not stopped early has reached
\* cond_resched exactly after its iterations 1, 101, 201, ...: ceil(N/100)
\* times, whatever the outcomes; run(250) yields three times.
C3_YieldAtHundredStarts ==
    \A t \in Writers :
        (CampaignOver(t) /\ ~gh[t].stopped)
            => /\ gh[t].yields = {k \in 1..th[t].iterations : (k - 1) % 100 = 0}
               /\ Cardinality(gh[t].yields) = (th[t].iterations + 99) \div 100
               /\ (th[t].iterations = 250 => gh[t].yields = {1, 101, 201})

C3_Witness ==
    \E t \in Writers :
        /\ CampaignOver(t) /\ ~gh[t].stopped
        /\ th[t].iterations >= 250
        /\ Cardinality(gh[t].yields) = 3
        /\ stats.valid_responses > 6 /\ stats.error_responses > 0

\* C4: when a disable finds a campaign after its k-th call was classified
\* and before the next check of the flag, k < N, and no enable follows, the
\* campaign starts no further iteration and makes no further call; it stops
\* at that check with exactly k iterations done, and (no other thread
\* storing to stats) total_iterations and the outcome counters have grown
\* by exactly k.
C4_DisableStopsAtNextCheck ==
    \A t \in Writers :
        (th[t].cmd = "fuzz" /\ gh[t].disAt >= 0)
            => /\ th[t].pc \in {"after_smc", "loop", "ret"}
               /\ IterationsDone(t) = gh[t].disAt
               /\ gh[t].calls = gh[t].disAt
               /\ (th[t].pc = "ret" => gh[t].stopped)
               /\ (Undisturbed(t) =>
                      /\ TotalGrowth(t) = gh[t].disAt
                      /\ OutcomeSum(stats) = OutcomeSum(gh[t].base) + gh[t].disAt)

C4_Witness ==
    \E t \in Writers :
        /\ CampaignOver(t) /\ gh[t].stopped /\ Undisturbed(t)
        /\ gh[t].disAt = 1
        /\ th[t].iterations = 2
        /\ TotalGrowth(t) = 1

\* C5: while enable and disable commands interleave with a campaign run(N),
\* and no reset and no other campaign does, the campaign has increased
\* total_iterations by at most N, and has made at most N calls.
C5_RunAddsAtMostN ==
    \A t \in Writers :
        (th[t].cmd = "fuzz" /\ Unraced(t))
            => /\ TotalGrowth(t) <= th[t].iterations
               /\ gh[t].calls <= th[t].iterations

C5_Witness ==
    \E t \in Writers :
        /\ CampaignOver(t) /\ Unraced(t)
        /\ {"enable", "disable"} \subseteq gh[t].clash
        /\ TotalGrowth(t) > 0
        /\ TotalGrowth(t) < th[t].iterations

\* C6: a call through execute_smc that no other thread's stores interleave
\* with adds exactly 1 to exactly one outcome counter: valid_responses for
\* the result 0, error_responses for a result with bit 63 set (-1,
\* 0x8000000000000000), interesting_cases for any other (1,
\* 0x7fffffffffffffff); it records the identifier and the result and
\* leaves the other members as they were.
C6_Expected(a0) ==
    IF a0 = U64Zero THEN "valid_responses"
    ELSE IF a0 \in {U64MinusOne, U64SignBit} THEN "error_responses"
    ELSE "interesting_cases"

C6_ClassifierCountsOnce ==
    \A t \in Writers :
        (th[t].pc = "after_smc" /\ Undisturbed(t))
            => stats = [gh[t].snap EXCEPT !.last_smc_id = th[t].func_id,
                                          !.last_result = th[t].res,
                                          ![C6_Expected(th[t].res)] = @ + 1]

C6_Witness ==
    \E t \in Writers :
        /\ th[t].pc = "after_smc" /\ Undisturbed(t)
        /\ th[t].cmd = "fuzz"
        /\ th[t].res = U64SignBit
        /\ stats.error_responses = gh[t].snap.error_responses + 1
        /\ stats.interesting_cases = gh[t].snap.interesting_cases

\* the values one proc_read has rendered
Rendered == rd.pc = "copy" \/ (rd.pc = "r_ret" /\ rd.rv # 0)
Snapshot == [f \in Fields |-> rd.seen[f]]

\* C7: a status read made after a reset has completed, with no command
\* between the reset and the end of the read, shows every counter 0 and
\* last_smc_id and last_result 0.
C7_ReadAfterResetIsZero ==
    (Rendered /\ rd.fresh) => Snapshot = ZeroStats

C7_Witness ==
    /\ Rendered /\ rd.fresh
    /\ Snapshot = ZeroStats
    /\ \E t \in Writers :
          /\ th[t].cmd = "reset" /\ th[t].pc = "ret"
          /\ OutcomeSum(gh[t].base) > 0
          /\ gh[t].base.last_smc_id # U32Zero

\* C8: a write that is not one of `fuzz <N>`, `test`, `enable`, `disable`,
\* `reset` (a verb with trailing junk, `fuzz` without a number, over-long
\* input) returns an error (-EINVAL, or -EFAULT when the copy from the
\* user fails), makes no call and leaves stats and the flag as they were.
C8_MalformedRejected ==
    \A t \in Writers :
        (InHandler(t) /\ gh[t].buf \notin WellFormed(MaxIter))
            => /\ th[t].pc = "ret"
               /\ th[t].rv \in {-EINVAL, -EFAULT}
               /\ gh[t].calls = 0
               /\ stats = gh[t].base
               /\ fuzzing_enabled = gh[t].en0

\* C9: no two campaigns are inside an iteration at the same time.
InIteration(t) ==
    /\ th[t].cmd = "fuzz"
    /\ th[t].pc \in {"inc_load", "inc_store", "f_call", "st_res", "cl_load",
                     "cl_store", "after_smc"}

C9_OneCampaignAtATime ==
    Cardinality({t \in Writers : InIteration(t)}) <= 1

\* C10: a status read that started with no handler running, and during
\* which nothing but a reset ran, has rendered either the stats as they were
\* before the reset or all zeros.
C10_ReadSeesResetWhole ==
    (Rendered /\ rd.quiet /\ rd.clash \subseteq {"reset"})
        => (Snapshot = rd.pre \/ Snapshot = ZeroStats)

\* the calls of one test_known(): the six corpus identifiers in corpus
\* order, each with six all-zero arguments
C11_Zero6 == <<U64Zero, U64Zero, U64Zero, U64Zero, U64Zero, U64Zero>>
C11_ExpectedCalls ==
    << <<<<45568, 3>>, C11_Zero6>>, <<<<45568, 4>>, C11_Zero6>>,
       <<<<45568, 7>>, C11_Zero6>>, <<<<45568, 9>>, C11_Zero6>>,
       <<<<45568, 10>>, C11_Zero6>>, <<<<45568, 11>>, C11_Zero6>> >>

TestKnownOver(t) ==
    /\ th[t].cmd \in {"test", "load"}
    /\ th[t].pc \in {"ret", "loaded"}

\* C11: a finished test_known() has invoked every corpus identifier exactly
\* once, in corpus order, each with six all-zero arguments, and nothing
\* else; the one of module load has finished before any operator command
\* is handled.
C11_TestKnownAtLoadFirst ==
    /\ \A t \in Threads : TestKnownOver(t) => gh[t].log = C11_ExpectedCalls
    /\ \A t \in Writers : InHandler(t) => th[Loader].pc = "loaded"

\* C12: a campaign `fuzz N` issued while the flag is false, with no enable
\* since, performs no iteration and makes no call: it is at its first check
\* or has stopped there, and (no other thread storing to stats) every
\* member of stats is as it was when the command was issued.
C12_DisabledRunsNothing ==
    \A t \in Writers :
        (th[t].cmd = "fuzz" /\ ~gh[t].en0 /\ "enable" \notin gh[t].clash)
            => /\ th[t].pc \in {"loop", "ret"}
               /\ th[t].i = 0
               /\ gh[t].calls = 0
               /\ (th[t].pc = "ret" /\ th[t].iterations > 0 => gh[t].stopped)
               /\ (Undisturbed(t) => stats = gh[t].base)

C12_Witness ==
    \E t \in Writers :
        /\ CampaignOver(t) /\ ~gh[t].en0 /\ gh[t].stopped
        /\ th[t].iterations = 2
        /\ gh[t].calls = 0
        /\ stats = gh[t].base
        /\ ops = 0

InCall(t) == th[t].pc \in {"st_res", "cl_load", "cl_store", "after_smc"}

\* C13: every fuzz iteration makes exactly one call whatever the result (no
\* retry), and no result ends a campaign: a campaign has returned only
\* after the "stopped by user" branch or with its budget used up, and one
\* that was not stopped has made exactly N calls.
C13_OneCallPerIteration ==
    \A t \in Writers :
        th[t].cmd = "fuzz"
            => /\ gh[t].calls = th[t].i + (IF InCall(t) THEN 1 ELSE 0)
               /\ (th[t].pc = "ret" => gh[t].stopped \/ th[t].i = th[t].iterations)
               /\ (th[t].pc = "ret" /\ ~gh[t].stopped
                      => gh[t].calls = th[t].iterations)

C13_Witness ==
    \E t \in Writers :
        /\ CampaignOver(t) /\ ~gh[t].stopped
        /\ th[t].iterations = 2
        /\ gh[t].calls = 2
        /\ stats.error_responses = gh[t].base.error_responses + 2
        /\ stats.last_result = U64SignBit

\* C14: when a call through execute_smc has returned (from a fuzz iteration
\* or from test_known_smcs), whatever its result, and no other thread
\* stored to stats meanwhile, last_smc_id is the identifier just invoked and
\* last_result is the result word just returned.
C14_LastCallRecorded ==
    \A t \in Threads :
        (th[t].pc = "after_smc" /\ Undisturbed(t))
            => /\ stats.last_smc_id = th[t].func_id
               /\ stats.last_result = th[t].res

C14_Witness ==
    \E t \in Writers :
        /\ th[t].pc = "after_smc" /\ Undisturbed(t)
        /\ th[t].cmd = "test"
        /\ th[t].func_id = <<45568, 7>>
        /\ th[t].res = U64MinusOne
        /\ gh[t].base.last_result = U64Zero
        /\ stats.last_smc_id = <<45568, 7>>
        /\ stats.last_result = U64MinusOne

\* C15: whatever enable, disable and reset commands are written meanwhile,
\* a campaign run(N) never has more than N loop passes behind it, and it
\* finishes: proc_write returns and the thread is idle again.
C15_CampaignTerminates ==
    /\ [](\A t \in Writers : th[t].cmd = "fuzz" => th[t].i <= th[t].iterations)
    /\ ((th[FirstWriter].cmd = "fuzz") ~> (th[FirstWriter].pc = "idle"))

C15_Witness ==
    /\ CampaignOver(FirstWriter)
    /\ th[FirstWriter].iterations = 2
    /\ th[FirstWriter].i = 2
    /\ "reset" \in gh[FirstWriter].clash

\* t's campaign has counted an iteration and not yet counted its outcome
MidIteration(t) ==
    /\ th[t].cmd = "fuzz"
    /\ th[t].pc \in {"f_call", "st_res", "cl_load", "cl_store"}

\* u's reset has stored to stats and has not finished
Resetting(u) ==
    /\ th[u].pc = "memset"
    /\ Len(th[u].todo) < Len(ResetFields)

\* C16: a reset never takes effect between an iteration's increment of
\* total_iterations and the increment of its outcome counter, and after an
\* iteration of a campaign that only resets ran beside, the outcome
\* counters do not sum to more than total_iterations.
C16_ResetExcludesClassification ==
    /\ \A t, u \in Writers : ~(MidIteration(t) /\ Resetting(u))
    /\ \A t \in Writers :
          (/\ th[t].cmd = "fuzz" /\ th[t].pc = "after_smc"
           /\ gh[t].clash = {"reset"}
           /\ \A u \in Writers : th[u].pc # "memset")
              => OutcomeSum(stats) <= stats.total_iterations

\* the step is the parse of an enable (b = TRUE) or a disable (b = FALSE)
ToggleParsed(b) ==
    \E t \in Writers :
        /\ th[t].pc = "idle"
        /\ th'[t].cmd = (IF b THEN "enable" ELSE "disable")

\* C17: the flag is true when the module is loaded, and a step changes it
\* only if it is the handling of an enable, which makes it true, or of a
\* disable, which makes it false: campaigns and their early stop, test
\* calls, resets, status reads and rejected writes leave it as it is.
C17_FlagWrittenByTogglesOnly ==
    /\ fuzzing_enabled = TRUE
    /\ [][fuzzing_enabled' # fuzzing_enabled => ToggleParsed(fuzzing_enabled')]_vars

C17_Witness ==
    /\ ~fuzzing_enabled
    /\ CampaignOver(FirstWriter)
    /\ gh[FirstWriter].stopped
    /\ th[FirstWriter].iterations = 2
    /\ ~gh[FirstWriter].en0

\* C18: in a step taken while no reset is in progress (a step of a fuzz
\* iteration, of a test call, of an enable or a disable), also with two
\* writers running at once, no counter of stats decreases.
C18_CountersNeverDecrease ==
    [][(\A t \in Writers : th[t].pc # "memset")
          => \A c \in Counters : stats'[c] >= stats[c]]_vars

\* id is a 32-bit word whose high 8 bits are 0xb2
C19_InNamespace(id) ==
    /\ id[1] \in 0..65535
    /\ id[2] \in 0..65535
    /\ id[1] \div 256 = 178

\* C19: every identifier generate_random_smc_id produced for a call, drawn
\* from the corpus or synthesized, lies in 0xb2000000..0xb2ffffff: its high
\* 8 bits are 0xb2.
C19_IdInNamespace ==
    \A t \in Writers :
        (th[t].cmd = "fuzz" /\ gh[t].calls > 0) => C19_InNamespace(th[t].func_id)

C19_Witness ==
    \E t \in Writers :
        /\ th[t].cmd = "fuzz" /\ th[t].pc = "after_smc"
        /\ th[t].func_id = <<45823, 65535>>
        /\ stats.last_smc_id = <<45823, 65535>>

\* C20: nothing in the module stores a non-zero value to stats.crashes or
\* stats.hangs: both are 0 in every reachable state, whatever the results
\* of the calls.
C20_NoCrashOrHangCounted ==
    /\ stats.crashes = 0
    /\ stats.hangs = 0

C20_Witness ==
    \E t \in Writers :
        /\ CampaignOver(t)
        /\ th[t].iterations = 2
        /\ stats.total_iterations >= 2
        /\ stats.error_responses >= 2
        /\ stats.crashes = 0
        /\ stats.hangs = 0

\* the calls of t's test_known_smcs that execute_smc has classified
TestCallsDone(t) == IF th[t].pc = "after_smc" THEN th[t].i + 1 ELSE th[t].i

\* t runs test_known_smcs: for a `test` command or for smc_fuzzer_init
InTestKnown(t) == th[t].cmd \in {"test", "load"} /\ InHandler(t)

\* C21: test_known_smcs (of a `test` command or of module load) leaves
\* total_iterations as it was while each of its calls is classified: with no
\* campaign and no reset beside it total_iterations keeps its value, with no
\* other thread storing to stats the outcome counters have grown by the
\* number of calls classified so far, and a finished execution has
\* classified exactly 6 calls.
C21_TestKnownCountsNoIteration ==
    /\ \A t \in Threads :
          InTestKnown(t)
            => /\ (Unraced(t) =>
                      stats.total_iterations = gh[t].base.total_iterations)
               /\ (Undisturbed(t) =>
                      OutcomeSum(stats) = OutcomeSum(gh[t].base) + TestCallsDone(t))
               /\ (th[t].pc = "ret" => TestCallsDone(t) = 6)
    /\ (th[Loader].pc = "loaded" => th[Loader].i = 6)

C21_Witness ==
    /\ th[Loader].pc = "loaded"
    /\ \E t \in Writers :
          /\ th[t].cmd = "test" /\ th[t].pc = "ret" /\ Undisturbed(t)
          /\ gh[t].base.total_iterations = 2
          /\ stats.total_iterations = 2
          /\ OutcomeSum(gh[t].base) = 8
          /\ OutcomeSum(stats) = 14

\* t's campaign has been through all its passes and was not stopped: it is
\* at the check that ends the loop or has left it
AllPassesDone(t) ==
    /\ th[t].cmd = "fuzz"
    /\ th[t].pc \in {"loop", "ret"}
    /\ th[t].i = th[t].iterations

\* C22: when the two writers run `fuzz N` and `fuzz M` at the same time as
\* the first two commands after module load (total_iterations 0, outcome
\* counters 6), the flag true throughout, and both campaigns have been
\* through all their passes, total_iterations has grown by exactly N + M and
\* the outcome counters by N + M in total.
C22_ConcurrentRunsAddUp ==
    (/\ \A t \in Writers : AllPassesDone(t) /\ gh[t].en0
     /\ fuzzing_enabled
     /\ ops = MaxOps - 2)
        => /\ stats.total_iterations
                = th[FirstWriter].iterations + th[SecondWriter].iterations
           /\ OutcomeSum(stats)
                = 6 + th[FirstWriter].iterations + th[SecondWriter].iterations

\* C23: test_known_smcs does not read the flag.  A `test` command, also one
\* issued while fuzzing is disabled and whatever enable and disable commands
\* are written while it runs, is never stopped: it returns only after it has
\* invoked the six corpus identifiers, it makes one call per pass, and (no
\* other thread storing to stats) the outcome counters have grown by the
\* number of calls classified and last_smc_id and last_result are those of
\* its latest call.
C23_TestKnownIgnoresFlag ==
    \A t \in Writers :
        (th[t].cmd = "test" /\ InHandler(t))
            => /\ ~gh[t].stopped
               /\ gh[t].calls = th[t].i + (IF InCall(t) THEN 1 ELSE 0)
               /\ (th[t].pc = "ret" <=> th[t].i = 6)
               /\ (th[t].pc = "ret" => gh[t].log = C11_ExpectedCalls)
               /\ (Undisturbed(t) =>
                      /\ OutcomeSum(stats) = OutcomeSum(gh[t].base) + TestCallsDone(t)
                      /\ (th[t].pc \in {"cl_load", "cl_store", "after_smc"} =>
                             /\ stats.last_smc_id = th[t].func_id
                             /\ stats.last_result = th[t].res)
                      /\ (th[t].pc = "ret" =>
                             /\ stats.last_smc_id = <<45568, 11>>
                             /\ stats.last_result = th[t].res))

C23_Witness ==
    \E t \in Writers :
        /\ th[t].cmd = "test" /\ th[t].pc = "ret" /\ Undisturbed(t)
        /\ ~gh[t].en0
        /\ {"enable", "disable"} \subseteq gh[t].clash
        /\ ~fuzzing_enabled
        /\ gh[t].calls = 6
        /\ gh[t].base.last_result = U64Zero
        /\ stats.last_result = U64MinusOne
        /\ stats.last_smc_id = <<45568, 11>>
        /\ stats.error_responses = gh[t].base.error_responses + 6

\* the step is one of proc_read: it moves the reader's handler on
ReadStepped == rd'.pc # rd.pc

\* C24: the handling of an enable or a disable and every step of a status
\* read leave all members of stats as they are (a read leaves the flag
\* too); an enable leaves the flag true and a disable leaves it false
\* whatever it was, so that the second of two in a row changes nothing.
C24_TogglesAndReadKeepStats ==
    /\ [](\A t \in Writers :
            (th[t].cmd \in {"enable", "disable"} /\ th[t].pc = "ret"
                 /\ gh[t].clash = {})
               => /\ stats = gh[t].base
                  /\ fuzzing_enabled = (th[t].cmd = "enable"))
    /\ [][/\ \A b \in BOOLEAN :
               ToggleParsed(b) => (stats' = stats /\ fuzzing_enabled' = b)
          /\ ReadStepped =>
               (stats' = stats /\ fuzzing_enabled' = fuzzing_enabled)]_vars

C24_Witness ==
    \E t \in Writers :
        /\ th[t].cmd = "disable" /\ th[t].pc = "ret"
        /\ ~gh[t].en0
        /\ ~fuzzing_enabled
        /\ stats = gh[t].base
        /\ OutcomeSum(stats) = 6
        /\ ops = 0

=============================================================================
